---- MODULE Spec2Model ----
(***************************************************************************)
(* Model of tranny's release ingestion core:                               *)
(*   - TorrentProvider.find_matches / exists  (tranny/provider/__init__.py) *)
(*   - get_source and its memo cache_source   (tranny/datastore.py)        *)
(*   - generate_release_key and the key types (tranny/datastore.py)        *)
(*   - init_client                            (tranny/client/__init__.py) *)
(* The code is Python 2 (unicode_literals, __unicode__): a StopIteration   *)
(* raised inside a generator body ends the generator normally.             *)
(***************************************************************************)
EXTENDS Integers, Sequences, FiniteSets, TLC

\* ------------------------------------------------------------------ bounds
MaxTime == 4
MaxInterval == 2
MaxItems == 2
MaxDownloads == 2
MaxObjs == 3
MaxFieldVal == 11
MaxClients == 2

Gens == {1, 2}
SessionIds == {1, 2}
Torrents == {"t1", "t2"}
KeyStrs == {"a", "a-1_2"}

VARIABLES
    \* ---- TorrentProvider (one provider instance) and its clock
    now,          \* value time() returns
    enabled,      \* self.enabled
    last_update,  \* self.last_update
    interval,     \* self.interval
    gpc,          \* per generator object returned by find_matches(): position
    gt0,          \* per generator: t0 read at line 45 (-1 before it is read)
    gsession,     \* per generator: session made at line 50 (0 = none)
    gitems,       \* per generator: what fetch_releases(session) produced so far
    gout,         \* per generator: pairs handed to the consumer so far
    gfetch,       \* per generator: number of fetch_releases invocations
    sessions,     \* number of Session() objects created so far
    accepted,     \* history: t0 of every cycle that passed the gate, in order
    downloads,    \* persisted Download.release_key values, in insertion order
    existsRet,    \* outcome of the last exists() call
    \* ---- datastore.get_source and the persistence behind it
    cache_source, \* the module-level defaultdict(lambda: False), by source name
    heap,         \* Source objects built so far: heap[oid] = [name, sid]
    db,           \* persisted Source rows: name -> oid of the row's object, 0 = no row
    staged,       \* oids passed to session.add() and not yet flushed
    dirty,        \* persistence was written externally since the last get_source
    ret,          \* outcome of the last get_source call
    prevRet,      \* outcome of the get_source call before it
    \* ---- datastore.generate_release_key
    kin,          \* what the parser gives for the release name being classified
    kout,         \* what generate_release_key returned for it
    kin2,         \* the same for a second release name classified
    kout2,
    \* ---- client.init_client
    client_conf,  \* the configured general.client value (or none configured)
    cret,         \* outcome of the last init_client call
    nclients      \* number of backend instances built so far

pollVars == <<now, enabled, last_update, interval, gpc, gt0, gsession, gitems,
              gout, gfetch, sessions, accepted>>
dedupVars == <<downloads, existsRet>>

storeVars == <<cache_source, heap, db, staged, dirty, ret, prevRet>>

keyVars == <<kin, kout, kin2, kout2>>

clientVars == <<client_conf, cret, nclients>>

vars == <<pollVars, dedupVars, storeVars, keyVars, clientVars>>

\* ------------------------------------------------- TorrentProvider.__init__
\* (interval comes from the configuration, line 28)
InitPollWith(intervals) ==
    /\ now = 0
    /\ enabled = FALSE
    /\ last_update = 0
    /\ interval \in intervals
    /\ gpc = [g \in Gens |-> "none"]
    /\ gt0 = [g \in Gens |-> -1]
    /\ gsession = [g \in Gens |-> 0]
    /\ gitems = [g \in Gens |-> <<>>]
    /\ gout = [g \in Gens |-> <<>>]
    /\ gfetch = [g \in Gens |-> 0]
    /\ sessions = 0
    /\ accepted = <<>>

InitPoll == InitPollWith(0..MaxInterval)

InitDedup ==
    /\ downloads = <<>>
    /\ existsRet = [called |-> FALSE]

\* mutants of the gate: ">=" for ">", and the enabled flag forgotten
GatePassesGe(t0, lu, iv, en) == ~(~((t0 - lu) >= iv) \/ ~en)
GatePassesAnyState(t0, lu, iv, en) == ~(~((t0 - lu) > iv))

\* line 47: the cycle is accepted iff  delta > interval  and  enabled
GatePasses(t0, lu, iv, en) == ~(~((t0 - lu) > iv) \/ ~en)

\* mutant: last_update is not advanced at the gate
GateUpdateStale(lu, t0) == lu

\* line 49: value of self.last_update once the gate is passed
GateUpdate(lu, t0) == t0

\* no generator sits between line 49 and line 51 (single-threaded code:
\* nothing else runs between the gate and the fetch_releases call)
NoGated == \A g \in Gens : gpc[g] # "gated"

\* the application switches a provider on or off (self.enabled, line 25)
SetEnabled(b) ==
    /\ NoGated
    /\ enabled # b
    /\ enabled' = b
    /\ UNCHANGED <<now, last_update, interval, gpc, gt0, gsession, gitems,
                   gout, gfetch, sessions, accepted>>
    /\ UNCHANGED <<dedupVars, storeVars, keyVars, clientVars>>

\* the clock read by time() advances
Tick ==
    /\ now < MaxTime
    /\ now' = now + 1
    /\ UNCHANGED <<enabled, last_update, interval, gpc, gt0, gsession, gitems,
                   gout, gfetch, sessions, accepted>>
    /\ UNCHANGED <<dedupVars, storeVars, keyVars, clientVars>>

\* line 39: calling find_matches() only builds the generator object
\* (generator objects are numbered in the order they are built)
FindMatchesCall(g) ==
    /\ NoGated
    /\ gpc[g] = "none"
    /\ \A h \in Gens : h < g => gpc[h] # "none"
    /\ gpc' = [gpc EXCEPT ![g] = "created"]
    /\ UNCHANGED <<now, enabled, last_update, interval, gt0, gsession, gitems,
                   gout, gfetch, sessions, accepted>>
    /\ UNCHANGED <<dedupVars, storeVars, keyVars, clientVars>>

\* lines 45-50: the first next() on the generator runs the gate
Gate(g) ==
    /\ NoGated
    /\ gpc[g] = "created"
    /\ gt0' = [gt0 EXCEPT ![g] = now]
    /\ IF GatePasses(now, last_update, interval, enabled)
       THEN /\ last_update' = GateUpdate(last_update, now)
            /\ sessions' = sessions + 1
            /\ gsession' = [gsession EXCEPT ![g] = sessions + 1]
            /\ accepted' = Append(accepted, now)
            /\ gpc' = [gpc EXCEPT ![g] = "gated"]
       ELSE /\ gpc' = [gpc EXCEPT ![g] = "done"]
            /\ UNCHANGED <<last_update, sessions, gsession, accepted>>
    /\ UNCHANGED <<now, enabled, interval, gitems, gout, gfetch>>
    /\ UNCHANGED <<dedupVars, storeVars, keyVars, clientVars>>

\* line 51: self.fetch_releases(session) is invoked (once per accepted cycle);
\* what it produces is consumed lazily by the for loop
FetchInvoke(g) ==
    /\ gpc[g] = "gated"
    /\ gfetch' = [gfetch EXCEPT ![g] = @ + 1]
    /\ gpc' = [gpc EXCEPT ![g] = "iter"]
    /\ UNCHANGED <<now, enabled, last_update, interval, gt0, gsession, gitems, gout,
                   sessions, accepted>>
    /\ UNCHANGED <<dedupVars, storeVars, keyVars, clientVars>>

\* line 52: the pair handed to the consumer for one fetched torrent
YieldPair(torrent, session) == <<torrent, session>>

\* lines 51-52: the consumer pulls and the fetch produces one more torrent
PullItem(g, t) ==
    /\ NoGated
    /\ gpc[g] = "iter"
    /\ Len(gitems[g]) < MaxItems
    /\ gitems' = [gitems EXCEPT ![g] = Append(@, t)]
    /\ gout' = [gout EXCEPT ![g] = Append(@, YieldPair(t, gsession[g]))]
    /\ UNCHANGED <<now, enabled, last_update, interval, gpc, gt0, gsession, gfetch,
                   sessions, accepted>>
    /\ UNCHANGED <<dedupVars, storeVars, keyVars, clientVars>>

\* line 51: the fetch is exhausted, the for loop and the generator end
PullEnd(g) ==
    /\ NoGated
    /\ gpc[g] = "iter"
    /\ gpc' = [gpc EXCEPT ![g] = "done"]
    /\ UNCHANGED <<now, enabled, last_update, interval, gt0, gsession, gitems, gout,
                   gfetch, sessions, accepted>>
    /\ UNCHANGED <<dedupVars, storeVars, keyVars, clientVars>>

\* mutant: find_matches catches the error and calls the fetch again
PullRaiseRetries(g) ==
    /\ NoGated
    /\ gpc[g] = "iter"
    /\ gpc' = [gpc EXCEPT ![g] = "gated"]
    /\ UNCHANGED <<now, enabled, last_update, interval, gt0, gsession, gitems, gout,
                   gfetch, sessions, accepted>>
    /\ UNCHANGED <<dedupVars, storeVars, keyVars, clientVars>>

\* lines 51, 60: fetch_releases raises (the base method always does); nothing
\* in find_matches catches it, so it reaches the consumer
PullRaise(g) ==
    /\ NoGated
    /\ gpc[g] = "iter"
    /\ gpc' = [gpc EXCEPT ![g] = "error"]
    /\ UNCHANGED <<now, enabled, last_update, interval, gt0, gsession, gitems, gout,
                   gfetch, sessions, accepted>>
    /\ UNCHANGED <<dedupVars, storeVars, keyVars, clientVars>>

NextPoll ==
    \/ \E b \in BOOLEAN : SetEnabled(b)
    \/ Tick
    \/ \E g \in Gens : FindMatchesCall(g)
    \/ \E g \in Gens : Gate(g)
    \/ \E g \in Gens : FetchInvoke(g)
    \/ \E g \in Gens, t \in Torrents : PullItem(g, t)
    \/ \E g \in Gens : PullEnd(g)
    \/ \E g \in Gens : PullRaise(g)

\* --------------------------------------------------- TorrentProvider.exists
\* mutant: the query is not filtered by release_key
QueryDownloadsAll(recs, k) == recs

\* line 64: "{}".format(release_key) == Download.release_key, .all()
QueryDownloads(recs, k) == SelectSeq(recs, LAMBDA d : d = k)

\* mutant: the except branch re-raises
ExistsOnErrorRaises == [raised |-> TRUE, kind |-> "exc", val |-> FALSE]

\* lines 65-67: the except branch logs and returns False
ExistsOnError == [raised |-> FALSE, kind |-> "bool", val |-> FALSE]

\* lines 62-67
ExistsResult(recs, k, fails) ==
    IF fails THEN ExistsOnError
    ELSE [raised |-> FALSE, kind |-> "list", val |-> QueryDownloads(recs, k)]

\* mutant: exists() also resets the provider's poll state
ExistsResetsPoll(s, k, fails) ==
    /\ existsRet' = [called |-> TRUE, session |-> s, key |-> k, failed |-> fails,
                     recs |-> downloads, ret |-> ExistsResult(downloads, k, fails)]
    /\ last_update' = 0
    /\ UNCHANGED downloads
    /\ UNCHANGED <<now, enabled, interval, gpc, gt0, gsession, gitems, gout, gfetch,
                   sessions, accepted>>
    /\ UNCHANGED <<storeVars, keyVars, clientVars>>

Exists(s, k, fails) ==
    /\ existsRet' = [called |-> TRUE, session |-> s, key |-> k, failed |-> fails,
                     recs |-> downloads, ret |-> ExistsResult(downloads, k, fails)]
    /\ UNCHANGED downloads
    /\ UNCHANGED <<pollVars, storeVars, keyVars, clientVars>>

\* the downstream pipeline records a Download for an accepted release
RecordDownload(k) ==
    /\ Len(downloads) < MaxDownloads
    /\ downloads' = Append(downloads, k)
    /\ UNCHANGED existsRet
    /\ UNCHANGED <<pollVars, storeVars, keyVars, clientVars>>

NextDedup ==
    \/ \E s \in SessionIds, k \in KeyStrs, f \in BOOLEAN : Exists(s, k, f)
    \/ \E k \in KeyStrs : RecordDownload(k)

\* ------------------------------------------------- datastore.get_source
SourceNames == {"rss", "irc"}
\* source_id the persistence layer gives a new row: a key never used before
NewSid(hp) ==
    LET used == {hp[i].sid : i \in 1..Len(hp)} \cup {0}
    IN  1 + CHOOSE m \in used : \A x \in used : x <= m
\* the source_id values asked for: those of rows, and ones no row has
SourceIds == 1..MaxObjs

\* values a memo slot can hold: no key, the default False, None, an object
Absent == [t |-> "absent", oid |-> 0]
FalseVal == [t |-> "False", oid |-> 0]
NoneVal == [t |-> "None", oid |-> 0]
Obj(o) == [t |-> "obj", oid |-> o]
\* Python truth of a value: not source  ==  ~Truthy(source)
Truthy(v) == v.t = "obj"

\* line 14: the memo starts empty; the database may already hold sources
InitStoreWith(persisted) ==
    /\ cache_source = [n \in SourceNames |-> Absent]
    /\ \E P \in persisted :
          \E order \in [1..Cardinality(P) -> P] :
             /\ \A i, j \in 1..Cardinality(P) : order[i] = order[j] => i = j
             /\ heap = [i \in 1..Cardinality(P) |-> [name |-> order[i], sid |-> i]]
             /\ db = [n \in SourceNames |->
                        IF n \in P THEN CHOOSE i \in 1..Cardinality(P) : order[i] = n ELSE 0]
    /\ staged = {}
    /\ dirty = FALSE
    /\ ret = [op |-> "none"]
    /\ prevRet = [op |-> "none"]

InitStore == InitStoreWith(SUBSET SourceNames)

\* what is kept of a call once the next call is made: which lookup it was
\* and, of a lookup by name, the name and what it returned
Earlier(r) ==
    IF r.op = "name" THEN [op |-> r.op, name |-> r.name, kind |-> r.kind, val |-> r.val]
    ELSE [op |-> r.op]

\* mutant: reading the slot forgets what it held
DefaultReadResets(cache, n) == [cache EXCEPT ![n] = FalseVal]

\* line 126: reading a defaultdict slot inserts the default under a new key
DefaultRead(cache, n) ==
    IF cache[n] = Absent THEN [cache EXCEPT ![n] = FalseVal] ELSE cache

\* lines 128, 135: query.first() gives the row's object or None
RowValue(o) == IF o = 0 THEN NoneVal ELSE Obj(o)

\* mutant: the source built on a miss is what the memo ends up holding
MemoAfterMissKeepsNew(cache, n, found, created) ==
    [cache EXCEPT ![n] = IF Truthy(found) THEN found ELSE created]

\* line 129: cache_source[source_name] = source (the query result, even None);
\* the Source built at line 140 is not written to the memo
MemoAfterMiss(cache, n, found, created) == [cache EXCEPT ![n] = found]

\* lines 125-129, 139-144: get_source(session, source_name=n).
\* A source staged earlier under this name is seen by the query only if the
\* session flushes it first (flush), which the session's configuration decides.
GetSourceByName(n, flush) ==
    LET c1 == DefaultRead(cache_source, n)
        cached == c1[n]
        stagedHere == {o \in staged : heap[o].name = n}
    IN  /\ prevRet' = Earlier(ret)
        /\ dirty' = FALSE
        /\ IF Truthy(cached)
           THEN /\ cache_source' = c1
                /\ ret' = [op |-> "name", name |-> n, id |-> 0, kind |-> "ok",
                           val |-> cached, queried |-> FALSE, ext |-> dirty]
                /\ flush = FALSE
                /\ UNCHANGED <<heap, db, staged>>
           ELSE IF db[n] # 0 \/ (flush /\ stagedHere # {})
           THEN LET o == IF db[n] # 0 THEN db[n] ELSE CHOOSE x \in stagedHere : TRUE
                IN  /\ (db[n] # 0 => flush = FALSE)
                    /\ db' = [db EXCEPT ![n] = o]
                    /\ heap' = [heap EXCEPT ![o].sid =
                                        IF @ # 0 THEN @ ELSE NewSid(heap)]
                    /\ staged' = staged \ {o}
                    /\ cache_source' = MemoAfterMiss(c1, n, Obj(o), Obj(o))
                    /\ ret' = [op |-> "name", name |-> n, id |-> 0, kind |-> "ok",
                               val |-> Obj(o), queried |-> TRUE, ext |-> dirty]
           ELSE /\ flush = FALSE
                /\ Len(heap) < MaxObjs
                /\ heap' = Append(heap, [name |-> n, sid |-> 0])
                /\ staged' = staged \cup {Len(heap) + 1}
                /\ cache_source' = MemoAfterMiss(c1, n, NoneVal, Obj(Len(heap) + 1))
                /\ ret' = [op |-> "name", name |-> n, id |-> 0, kind |-> "ok",
                           val |-> Obj(Len(heap) + 1), queried |-> TRUE, ext |-> dirty]
                /\ UNCHANGED db
        /\ UNCHANGED <<pollVars, dedupVars, keyVars, clientVars>>

\* lines 125-128: the query itself fails; the slot read at line 126 stays
GetSourceByNameDbError(n) ==
    LET c1 == DefaultRead(cache_source, n)
    IN  /\ ~Truthy(c1[n])
        /\ prevRet' = Earlier(ret)
        /\ dirty' = FALSE
        /\ cache_source' = c1
        /\ ret' = [op |-> "name", name |-> n, id |-> 0, kind |-> "DBError",
                   val |-> NoneVal, queried |-> TRUE, ext |-> dirty]
        /\ UNCHANGED <<heap, db, staged>>
        /\ UNCHANGED <<pollVars, dedupVars, keyVars, clientVars>>

\* line 131: cache_source.values() comes in the dict's order, which the
\* program does not control: any order of the keys present
ScanOrders(cache) ==
    LET keys == {n \in SourceNames : cache[n] # Absent}
    IN  {o \in [1..Cardinality(keys) -> keys] :
            \A i, j \in 1..Cardinality(keys) : o[i] = o[j] => i = j}

\* lines 131-134: the scan reads source.source_id of each cached value; a
\* cached False or None has no such attribute; "else" when the loop ends
\* without break
RECURSIVE ScanById(_, _, _, _, _)
ScanById(cache, hp, order, i, id) ==
    IF i > Len(order) THEN [k |-> "else", val |-> NoneVal]
    ELSE LET v == cache[order[i]]
         IN  IF ~Truthy(v) THEN [k |-> "AttributeError", val |-> v]
             ELSE IF hp[v.oid].sid = id THEN [k |-> "break", val |-> v]
             ELSE ScanById(cache, hp, order, i + 1, id)

\* line 135: query(Source).filter_by(source_id=id).first()
QueryById(id) ==
    LET rows == {n \in SourceNames : db[n] # 0 /\ heap[db[n]].sid = id}
    IN  RowValue(IF rows = {} THEN 0 ELSE db[CHOOSE n \in rows : TRUE])

\* mutant: the by-id miss is checked before the found source is dereferenced
ByIdAfterQueryChecked(found) ==
    IF Truthy(found) THEN [kind |-> "ok", memo |-> TRUE]
    ELSE [kind |-> "ValueError", memo |-> FALSE]

\* lines 136, 142-144: cache_source[source.source_name] = source reads an
\* attribute of the query result before line 142 tests it
ByIdAfterQuery(found) ==
    IF Truthy(found) THEN [kind |-> "ok", memo |-> TRUE]
    ELSE [kind |-> "AttributeError", memo |-> FALSE]

\* lines 130-136, 142-144: get_source(session, source_id=id), id truthy
GetSourceById(id, order) ==
    LET scan == ScanById(cache_source, heap, order, 1, id)
        found == QueryById(id)
        after == ByIdAfterQuery(found)
    IN  /\ prevRet' = Earlier(ret)
        /\ dirty' = FALSE
        /\ IF scan.k = "AttributeError"
           THEN /\ ret' = [op |-> "id", name |-> "", id |-> id, kind |-> "AttributeError",
                           val |-> NoneVal, queried |-> FALSE, ext |-> dirty]
                /\ UNCHANGED cache_source
           ELSE IF scan.k = "break"
           THEN /\ ret' = [op |-> "id", name |-> "", id |-> id, kind |-> "ok",
                           val |-> scan.val, queried |-> FALSE, ext |-> dirty]
                /\ UNCHANGED cache_source
           ELSE /\ ret' = [op |-> "id", name |-> "", id |-> id, kind |-> after.kind,
                           val |-> found, queried |-> TRUE, ext |-> dirty]
                /\ cache_source' = IF after.memo
                                   THEN [cache_source EXCEPT ![heap[found.oid].name] = found]
                                   ELSE cache_source
        /\ UNCHANGED <<heap, db, staged>>
        /\ UNCHANGED <<pollVars, dedupVars, keyVars, clientVars>>

\* lines 137-138: neither argument given: every persisted source, no memo use
GetSourceAll ==
    /\ prevRet' = Earlier(ret)
    /\ dirty' = FALSE
    /\ ret' = [op |-> "all", name |-> "", id |-> 0, kind |-> "list",
               val |-> NoneVal, queried |-> TRUE, ext |-> dirty]
    /\ UNCHANGED <<cache_source, heap, db, staged>>
    /\ UNCHANGED <<pollVars, dedupVars, keyVars, clientVars>>

\* another writer adds the row of a source (models.Source, line 8)
InsertRow(n) ==
    /\ db[n] = 0
    /\ Len(heap) < MaxObjs
    /\ heap' = Append(heap, [name |-> n, sid |-> NewSid(heap)])
    /\ db' = [db EXCEPT ![n] = Len(heap) + 1]
    /\ dirty' = TRUE
    /\ UNCHANGED <<cache_source, staged, ret, prevRet>>
    /\ UNCHANGED <<pollVars, dedupVars, keyVars, clientVars>>

\* another writer removes the row of a source
DeleteRow(n) ==
    /\ db[n] # 0
    /\ db' = [db EXCEPT ![n] = 0]
    /\ dirty' = TRUE
    /\ UNCHANGED <<cache_source, heap, staged, ret, prevRet>>
    /\ UNCHANGED <<pollVars, dedupVars, keyVars, clientVars>>

\* what is kept of a lookup of another reference entity (the section, genre
\* and person tables are outside this model): that the last lookup was not
\* a get_source
RefResult ==
    [op |-> "ref", name |-> "", id |-> 0, kind |-> "ok", val |-> NoneVal,
     queried |-> TRUE, ext |-> FALSE]

\* lines 111-121: get_section queries (and may stage a Section) through the
\* session and never names cache_source
GetSection ==
    /\ prevRet' = Earlier(ret)
    /\ ret' = RefResult
    /\ UNCHANGED <<cache_source, heap, db, staged, dirty>>
    /\ UNCHANGED <<pollVars, dedupVars, keyVars, clientVars>>

\* lines 147-153: get_genre(session, genre_name, create)
GetGenre ==
    /\ prevRet' = Earlier(ret)
    /\ ret' = RefResult
    /\ UNCHANGED <<cache_source, heap, db, staged, dirty>>
    /\ UNCHANGED <<pollVars, dedupVars, keyVars, clientVars>>

\* lines 156-162: get_person_imdb(session, imdb_person_id, name, create)
GetPersonImdb ==
    /\ prevRet' = Earlier(ret)
    /\ ret' = RefResult
    /\ UNCHANGED <<cache_source, heap, db, staged, dirty>>
    /\ UNCHANGED <<pollVars, dedupVars, keyVars, clientVars>>

NextStore ==
    \/ \E n \in SourceNames, flush \in BOOLEAN : GetSourceByName(n, flush)
    \/ \E n \in SourceNames : GetSourceByNameDbError(n)
    \/ \E id \in SourceIds : \E order \in ScanOrders(cache_source) : GetSourceById(id, order)
    \/ GetSourceAll
    \/ \E n \in SourceNames : InsertRow(n)
    \/ \E n \in SourceNames : DeleteRow(n)
    \/ GetSection
    \/ GetGenre
    \/ GetPersonImdb

\* ------------------------------------------- datastore.generate_release_key
\* strings are sequences of characters
Dash == <<"-">>
Under == <<"_">>

\* name.lower(), line 91, character by character
LowerChar(c) == CASE c = "S" -> "s" [] c = "H" -> "h" [] c = "T" -> "t" [] OTHER -> c
Lower(str) == [i \in 1..Len(str) |-> LowerChar(str[i])]

\* "{}".format(n) of a non-negative integer: its decimal digits
DigitChar(d) == <<"0", "1", "2", "3", "4", "5", "6", "7", "8", "9">>[d + 1]
RECURSIVE Format(_)
Format(n) == IF n < 10 THEN <<DigitChar(n)>> ELSE Format(n \div 10) \o <<DigitChar(n % 10)>>

\* what parser.parse_release can give: a name in any letter case, or nothing
ParsedNames == {<<"S", "h">>, <<"s", "h">>, <<"s", "H", "-", "1">>, <<>>}
\* what parser.normalize gives for the raw names under classification; the
\* empty string when nothing usable is left of the raw name
ReleaseNames == {"Sh.S01E02.HDTV", "sh.2012.11.01.x264", ""}
\* parser.parse_release never raises and finds no name in an empty string
ParseReleaseResults(release_name) ==
    IF release_name = "" THEN {<<>>} ELSE ParsedNames
\* what parser.parse_release_info can give: a mapping of some of the fields
\* to numbers, an empty result, or an exception (TypeError or another)
Fields == {"season", "episode", "year", "month", "day"}
FieldVals == {1, MaxFieldVal}
ParsedInfos ==
    {[k |-> "map", m |-> f] : f \in UNION {[K -> FieldVals] : K \in SUBSET Fields}}
    \cup {[k |-> "TypeError", m |-> <<>>], [k |-> "Exception", m |-> <<>>],
          [k |-> "None", m |-> <<>>]}

\* mutant: the key defaults to the release name
BaseReleaseKeyOfReleaseName(release_name, name, release_key, media_type) ==
    [cls |-> "BaseReleaseKey", release_name |-> release_name, name |-> name,
     release_key |-> IF release_key = <<>> THEN <<release_name>> ELSE release_key,
     media_type |-> media_type, fields |-> <<>>, daily |-> "unset"]

\* lines 21-25: BaseReleaseKey.__init__; release_key or name
BaseReleaseKey(release_name, name, release_key, media_type) ==
    [cls |-> "BaseReleaseKey", release_name |-> release_name, name |-> name,
     release_key |-> IF release_key = <<>> THEN name ELSE release_key,
     media_type |-> media_type, fields |-> <<>>, daily |-> "unset"]

\* mutant: episode before season
TVKeyFormatSwapped(name, season, episode) ==
    name \o Dash \o Format(episode) \o Under \o Format(season)
\* line 45: "{}-{}_{}".format(name, season, episode)
TVKeyFormat(name, season, episode) ==
    name \o Dash \o Format(season) \o Under \o Format(episode)

\* lines 41-51: TVReleaseKey.__init__ (year is left None)
TVReleaseKey(release_name, name, season, episode) ==
    [BaseReleaseKey(release_name, name, TVKeyFormat(name, season, episode), "MEDIA_TV")
        EXCEPT !.cls = "TVReleaseKey",
               !.fields = [season |-> season, episode |-> episode],
               !.daily = "False"]

\* mutant: day before month
TVDailyKeyFormatDayFirst(name, year, month, day) ==
    name \o Dash \o Format(year) \o Under \o Format(day) \o Under \o Format(month)
\* line 59: "{}-{}_{}_{}".format(name, year, month, day)
TVDailyKeyFormat(name, year, month, day) ==
    name \o Dash \o Format(year) \o Under \o Format(month) \o Under \o Format(day)

\* lines 55-65: TVDailyReleaseKey.__init__
TVDailyReleaseKey(release_name, name, day, month, year) ==
    [BaseReleaseKey(release_name, name, TVDailyKeyFormat(name, year, month, day), "MEDIA_TV")
        EXCEPT !.cls = "TVDailyReleaseKey",
               !.fields = [day |-> day, month |-> month, year |-> year],
               !.daily = "True"]

\* mutant: the year is left out of the key
MovieKeyFormatNoYear(name, year) == name \o Dash
\* line 73: "{}-{}".format(name, year)
MovieKeyFormat(name, year) == name \o Dash \o Format(year)

\* lines 69-76: MovieReleaseKey.__init__
MovieReleaseKey(release_name, name, year) ==
    [BaseReleaseKey(release_name, name, MovieKeyFormat(name, year), "MEDIA_MOVIE")
        EXCEPT !.cls = "MovieReleaseKey", !.fields = [year |-> year]]

\* mutant: a shape matches when its fields are all present
KeySetIsSubset(key_set, shape) == shape \subseteq key_set
\* lines 101, 103, 105: key_set == {...}
KeySetIs(key_set, shape) == key_set = shape

\* line 90: return False
NoMatch == [cls |-> "False"]

\* mutant: the name test is missing
NameMissingNever(parsed) == FALSE
\* line 89: not name
NameMissing(parsed) == parsed = <<>>

\* mutant: only except TypeError, without the return in finally
AbsorbTypeErrorOnly(release_info, exc) ==
    IF exc = "TypeError" THEN release_info ELSE [cls |-> "raised", exc |-> exc]
\* lines 95-97, 107-108: except TypeError: pass, and finally: return
\* release_info, which discards any other exception in flight as well
AbsorbParserError(release_info, exc) == release_info

\* lines 87-108: generate_release_key, given the parser's answers for the name
GenerateReleaseKey(release_name, parsed, info) ==
    IF NameMissing(parsed) THEN NoMatch
    ELSE LET name == Lower(parsed)
             release_info == BaseReleaseKey(release_name, name, <<>>, "MEDIA_UNKNOWN")
             key_set == DOMAIN info.m
         IN  IF info.k \in {"TypeError", "Exception"}
                  THEN AbsorbParserError(release_info, info.k)
             ELSE IF info.k # "map" \/ key_set = {} THEN release_info
             ELSE IF KeySetIs(key_set, {"season", "episode"})
                  THEN TVReleaseKey(release_name, name, info.m["season"], info.m["episode"])
             ELSE IF KeySetIs(key_set, {"year", "day", "month"})
                  THEN TVDailyReleaseKey(release_name, name, info.m["day"],
                                         info.m["month"], info.m["year"])
             ELSE IF KeySetIs(key_set, {"year"})
                  THEN MovieReleaseKey(release_name, name, info.m["year"])
             ELSE release_info

InitKeyWith(rnames, names, infos) ==
    /\ kin \in [release_name : rnames, parsed : names, info : infos]
    /\ kin.parsed \in ParseReleaseResults(kin.release_name)
    /\ kout = [cls |-> "pending"]
    /\ kin2 = [release_name |-> "", parsed |-> <<>>, info |-> [k |-> "None", m |-> <<>>]]
    /\ kout2 = [cls |-> "pending"]
InitKey == InitKeyWith(ReleaseNames, ParsedNames, ParsedInfos)

\* one call generate_release_key(release_name)
Classify ==
    /\ kout.cls = "pending"
    /\ kout' = GenerateReleaseKey(kin.release_name, kin.parsed, kin.info)
    /\ UNCHANGED <<kin, kin2, kout2>>
    /\ UNCHANGED <<pollVars, dedupVars, storeVars, clientVars>>

NextKey == Classify

\* two names are classified; the parser answers the same name the same way
PairInfos ==
    {i \in ParsedInfos :
        DOMAIN i.m \in {{}, {"season", "episode"}, {"year"}, {"year", "day", "month"},
                        {"season", "episode", "year"}}}
InitKeyPair ==
    /\ kin \in [release_name : ReleaseNames, parsed : ParsedNames, info : PairInfos]
    /\ kin.parsed \in ParseReleaseResults(kin.release_name)
    /\ kin2 \in [release_name : ReleaseNames, parsed : ParsedNames, info : PairInfos]
    /\ kin2.parsed \in ParseReleaseResults(kin2.release_name)
    /\ kin2.release_name = kin.release_name => kin2 = kin
    /\ kout = [cls |-> "pending"]
    /\ kout2 = [cls |-> "pending"]

\* another call generate_release_key(release_name)
ClassifyAgain ==
    /\ kout2.cls = "pending"
    /\ kout2' = GenerateReleaseKey(kin2.release_name, kin2.parsed, kin2.info)
    /\ UNCHANGED <<kin, kout, kin2>>
    /\ UNCHANGED <<pollVars, dedupVars, storeVars, clientVars>>

NextKeyPair == Classify \/ ClassifyAgain

\* each specification exercises one component from its possible starting
\* states, the other components resting in a fixed starting state
\* the consumer of find_matches checks a pair it was handed against the
\* recorded downloads, with the session that came in the pair
ConsumerExists(g) ==
    /\ gout[g] # <<>>
    /\ \E k \in KeyStrs, fails \in BOOLEAN : Exists(gsession[g], k, fails)

NextPollDedup ==
    \/ NextPoll
    \/ \E g \in Gens : ConsumerExists(g)

\* ------------------------------------------------------ client.init_client
Rtorrent == <<"r", "t", "o", "r", "r", "e", "n", "t">>
Transmission == <<"t", "r", "a", "n", "s", "m", "i", "s", "s", "i", "o", "n">>
Utorrent == <<"u", "t", "o", "r", "r", "e", "n", "t">>
\* values tried as client type: the three names, two of them in another
\* letter case, an unknown name, the empty string
ClientNames ==
    {Rtorrent, Transmission, Utorrent,
     <<"T", "r", "a", "n", "s", "m", "i", "s", "s", "i", "o", "n">>,
     <<"r", "T", "o", "r", "r", "e", "n", "t">>,
     <<"d", "e", "l", "u", "g", "e">>, <<>>}
\* None (no argument, no option in the configuration) or a string
NoValue == [k |-> "None"]
Str(s) == [k |-> "str", s |-> s]
ClientValues == {NoValue} \cup {Str(s) : s \in ClientNames}

\* config.get_default(section, option, default): the option's value, or the
\* default when the configuration has no such option
GetDefault(conf, default) == IF conf = NoValue THEN Str(default) ELSE conf

\* line 65: not client_type (None and the empty string)
NotClientType(client_type) == client_type = NoValue \/ client_type.s = <<>>

\* mutant: a supplied client type is lower-cased too
ClientTypeOfLowersBoth(client_type, conf) ==
    IF NotClientType(client_type)
    THEN Str(Lower(GetDefault(conf, Transmission).s))
    ELSE Str(Lower(client_type.s))

\* lines 65-66: only the configured value goes through .lower()
ClientTypeOf(client_type, conf) ==
    IF NotClientType(client_type)
    THEN Str(Lower(GetDefault(conf, Transmission).s))
    ELSE client_type

\* lines 67-75: exact comparison with the three names, else ConfigError
SelectBackend(ct) ==
    IF ct.s = Rtorrent THEN [kind |-> "client", backend |-> "RTorrentClient"]
    ELSE IF ct.s = Transmission THEN [kind |-> "client", backend |-> "TransmissionClient"]
    ELSE IF ct.s = Utorrent THEN [kind |-> "client", backend |-> "UTorrentClient"]
    ELSE [kind |-> "ConfigError", backend |-> "none"]

InitClientConf(confs) ==
    /\ client_conf \in confs
    /\ cret = [called |-> FALSE]
    /\ nclients = 0

\* lines 56-75: one call init_client(client_type)
InitClient(client_type) ==
    LET res == SelectBackend(ClientTypeOf(client_type, client_conf))
    IN  /\ nclients < MaxClients
        /\ cret' = [called |-> TRUE, arg |-> client_type, res |-> res]
        /\ nclients' = IF res.kind = "client" THEN nclients + 1 ELSE nclients
        /\ UNCHANGED client_conf
        /\ UNCHANGED <<pollVars, dedupVars, storeVars, keyVars>>

NextClient == \E client_type \in ClientValues : InitClient(client_type)

PollRest == InitPollWith({MaxInterval})
StoreRest == InitStoreWith({{}})
KeyRest == InitKeyWith({""}, {<<>>}, {[k |-> "None", m |-> <<>>]})
ClientRest == InitClientConf({NoValue})


StartPoll == InitPoll /\ InitDedup /\ StoreRest /\ KeyRest /\ ClientRest
StartDedup == PollRest /\ InitDedup /\ StoreRest /\ KeyRest /\ ClientRest
StartStore == PollRest /\ InitDedup /\ InitStore /\ KeyRest /\ ClientRest
StartKey == PollRest /\ InitDedup /\ StoreRest /\ InitKey /\ ClientRest
StartKeyPair == PollRest /\ InitDedup /\ StoreRest /\ InitKeyPair /\ ClientRest

StartClient == PollRest /\ InitDedup /\ StoreRest /\ KeyRest /\ InitClientConf(ClientValues)
SpecPoll == StartPoll /\ [][NextPoll]_vars
SpecDedup == StartDedup /\ [][NextDedup]_vars
SpecStore == StartStore /\ [][NextStore]_vars
SpecKey == StartKey /\ [][NextKey]_vars
SpecKeyPair == StartKeyPair /\ [][NextKeyPair]_vars
SpecClient == StartClient /\ [][NextClient]_vars
SpecPollDedup == StartPoll /\ [][NextPollDedup]_vars

\* ========================================================== claims C1 - C4
\* a generator's first next() is taken in this step
Triggered(g) == gpc[g] = "created" /\ gpc'[g] # "created"
Due == now - last_update > interval
PairsOf(items, session) == [i \in 1..Len(items) |-> <<items[i], session>>]

C1_Step ==
    \A g \in Gens :
        /\ (Triggered(g) /\ enabled /\ Due) =>
               /\ gpc'[g] = "gated"
               /\ gt0'[g] = now
               /\ last_update' = now
               /\ gfetch'[g] = 0 /\ gout'[g] = <<>>
               /\ gsession'[g] \notin {gsession[h] : h \in Gens}
        /\ gfetch'[g] # gfetch[g] =>
               gpc[g] = "gated" /\ last_update = gt0[g] /\ gfetch[g] = 0
        /\ gout'[g] # gout[g] =>
               /\ gfetch[g] = 1 /\ last_update >= gt0[g]
               /\ gsession'[g] = gsession[g]
C1_State ==
    \A g \in Gens :
        /\ gout[g] = PairsOf(gitems[g], gsession[g])
        /\ gpc[g] = "gated" => last_update = gt0[g] /\ gfetch[g] = 0 /\ gout[g] = <<>>
        /\ (gfetch[g] > 0 \/ gout[g] # <<>>) =>
               gsession[g] \in 1..sessions /\ last_update >= gt0[g]

\* C1: a trigger at time t on an enabled provider with t - last_update >
\* interval sets last_update to t before fetch_releases is invoked or any
\* item is handed out, and the cycle yields exactly the fetched items, in
\* order, each paired with the one session created for the cycle.
C1_AcceptedCycle == [][C1_Step]_vars /\ []C1_State
C1_Witness ==
    \E g \in Gens :
        /\ gpc[g] = "done" /\ gsession[g] # 0 /\ gt0[g] > 0
        /\ Len(gout[g]) = 2 /\ gout[g][1][1] # gout[g][2][1]

\* C2: a trigger while the provider is disabled, or while now - last_update
\* is not strictly greater than interval (equal included), ends at once as
\* an empty sequence without error: no fetch, no session, last_update kept.
C2_RejectedCycle ==
    [][\A g \in Gens :
          (Triggered(g) /\ (~enabled \/ ~Due)) =>
              /\ gpc'[g] = "done"
              /\ gout'[g] = <<>> /\ gfetch'[g] = 0
              /\ gsession'[g] = 0 /\ sessions' = sessions
              /\ last_update' = last_update /\ accepted' = accepted]_vars
C2_Witness ==
    \E g \in Gens :
        /\ gpc[g] = "done" /\ gsession[g] = 0
        /\ enabled /\ last_update > 0 /\ interval > 0
        /\ gt0[g] - last_update = interval

\* C3: under every interleaving of triggers and pulls, any two accepted
\* cycles of the provider have trigger times more than interval apart.
C3_CyclesSerialized ==
    \A i, j \in 1..Len(accepted) : i < j => accepted[j] - accepted[i] > interval
C3_Witness ==
    \E g, h \in Gens :
        /\ gpc[g] = "iter" /\ Len(gout[g]) = 1
        /\ gsession[h] # 0 /\ gt0[h] > gt0[g]
        /\ Len(accepted) = 2

\* C4: when the persistence query inside exists() fails, exists() returns
\* normally (nothing propagates) with a falsy value, the same verdict as an
\* empty match list: no duplicate found.
C4_ExistsFailOpen ==
    (existsRet.called /\ existsRet.failed) =>
        /\ ~existsRet.ret.raised
        /\ \/ existsRet.ret.kind = "bool" /\ existsRet.ret.val = FALSE
           \/ existsRet.ret.kind = "list" /\ existsRet.ret.val = <<>>
C4_Witness ==
    /\ existsRet.called /\ existsRet.failed
    /\ existsRet.key \in {downloads[i] : i \in 1..Len(downloads)}

\* ========================================================== claims C5 - C6
\* C5: get_source called twice with the same name and no external write in
\* between returns the identical cached instance both times, whether or not
\* a source of that name was persisted before the first call.
C5_SameInstanceTwice ==
    (/\ ret.op = "name" /\ prevRet.op = "name"
     /\ ret.kind = "ok" /\ prevRet.kind = "ok"
     /\ ret.name = prevRet.name
     /\ ~ret.ext /\ ~dirty) =>
        /\ ret.val = prevRet.val
        /\ cache_source[ret.name] = ret.val

\* no cached value and no persisted row carries this source_id
NoSourceWithId(id) ==
    /\ \A n \in SourceNames :
          Truthy(cache_source[n]) => heap[cache_source[n].oid].sid # id
    /\ QueryById(id) = NoneVal

\* C6: get_source by id fails with ValueError, and with no other kind of
\* failure, when neither the memo nor persistence holds a source of that id,
\* whatever the memo holds.
C6_ByIdMissIsValueError ==
    (ret.op = "id" /\ ~dirty /\ NoSourceWithId(ret.id)) => ret.kind = "ValueError"

\* ========================================================= claims C7 - C10
\* generate_release_key has returned for a name the parser gave a canonical
\* name for, and the parser gave exactly the fields of shape
Classified(shape) ==
    /\ kout.cls # "pending"
    /\ kin.parsed # <<>>
    /\ kin.info.k = "map"
    /\ DOMAIN kin.info.m = shape
KeysTV(n) == n \o <<"-">> \o Format(kin.info.m["season"]) \o <<"_">>
               \o Format(kin.info.m["episode"])
KeysDaily(n) == n \o <<"-">> \o Format(kin.info.m["year"]) \o <<"_">>
                  \o Format(kin.info.m["month"]) \o <<"_">> \o Format(kin.info.m["day"])
KeysMovie(n) == n \o <<"-">> \o Format(kin.info.m["year"])

\* C7 as stated: field-set exactly {season, episode} gives the TV variant
\* carrying that season and episode, with key = "N-{season}_{episode}" for
\* the canonical name N the parser yields.
C7_TVKeyOfParsedName ==
    Classified({"season", "episode"}) =>
        /\ kout.cls = "TVReleaseKey"
        /\ kout.fields = kin.info.m
        /\ kout.release_key = KeysTV(kin.parsed)
\* C7 amended: the same with N lower-cased (the name the key object carries).
C7_TVKey ==
    Classified({"season", "episode"}) =>
        /\ kout.cls = "TVReleaseKey"
        /\ kout.fields = kin.info.m
        /\ kout.name = Lower(kin.parsed)
        /\ kout.release_key = KeysTV(Lower(kin.parsed))
C7_Witness ==
    /\ Classified({"season", "episode"})
    /\ kin.parsed = <<"S", "h">>
    /\ kin.info.m = [season |-> 1, episode |-> 11]
    /\ kout.release_key = <<"s", "h", "-", "1", "_", "1", "1">>

\* C8 as stated: field-set exactly {year, day, month} gives the TVDaily
\* variant with key = "N-{year}_{month}_{day}" and day, month, year fields
\* holding the parser's values, N being the name the parser yields.
C8_DailyKeyOfParsedName ==
    Classified({"year", "day", "month"}) =>
        /\ kout.cls = "TVDailyReleaseKey"
        /\ kout.fields = kin.info.m
        /\ kout.release_key = KeysDaily(kin.parsed)
\* C8 amended: the same with N lower-cased.
C8_DailyKey ==
    Classified({"year", "day", "month"}) =>
        /\ kout.cls = "TVDailyReleaseKey"
        /\ kout.fields = kin.info.m
        /\ kout.name = Lower(kin.parsed)
        /\ kout.release_key = KeysDaily(Lower(kin.parsed))
C8_Witness ==
    /\ Classified({"year", "day", "month"})
    /\ kin.parsed = <<"S", "h">>
    /\ kin.info.m = [year |-> 11, month |-> 1, day |-> 11]
    /\ kout.release_key = <<"s", "h", "-", "1", "1", "_", "1", "_", "1", "1">>

\* C9 as stated: field-set exactly {year} gives the Movie variant with
\* key = "N-{year}", N being the name the parser yields.
C9_MovieKeyOfParsedName ==
    Classified({"year"}) =>
        /\ kout.cls = "MovieReleaseKey"
        /\ kout.fields = kin.info.m
        /\ kout.release_key = KeysMovie(kin.parsed)
\* C9 amended: the same with N lower-cased.
C9_MovieKey ==
    Classified({"year"}) =>
        /\ kout.cls = "MovieReleaseKey"
        /\ kout.fields = kin.info.m
        /\ kout.name = Lower(kin.parsed)
        /\ kout.release_key = KeysMovie(Lower(kin.parsed))
C9_Witness ==
    /\ Classified({"year"})
    /\ kin.parsed = <<"s", "H", "-", "1">>
    /\ kin.info.m = [year |-> 11]
    /\ kout.release_key = <<"s", "h", "-", "1", "-", "1", "1">>

\* the parser gave a field-set (possibly empty) that is none of the three shapes
OtherFieldSet ==
    /\ kout.cls # "pending"
    /\ kin.parsed # <<>>
    /\ kin.info.k \in {"map", "None"}
    /\ DOMAIN kin.info.m \notin {{"season", "episode"}, {"year", "day", "month"}, {"year"}}

\* C10 as stated: every field-set other than the three shapes (empty,
\* partial, or with extras) gives the Base variant with key = N, the name
\* the parser yields, and none of the extracted fields.
C10_BaseKeyOfParsedName ==
    OtherFieldSet =>
        /\ kout.cls = "BaseReleaseKey"
        /\ kout.fields = <<>>
        /\ kout.release_key = kin.parsed
\* C10 amended: the same with N lower-cased.
C10_BaseKey ==
    OtherFieldSet =>
        /\ kout.cls = "BaseReleaseKey"
        /\ kout.fields = <<>>
        /\ kout.name = Lower(kin.parsed)
        /\ kout.release_key = Lower(kin.parsed)
C10_Witness ==
    /\ OtherFieldSet
    /\ kin.parsed = <<"S", "h">>
    /\ kin.info.k = "map"
    /\ DOMAIN kin.info.m = {"season", "episode", "year"}
    /\ kout.release_key = <<"s", "h">>

\* ======================================================== claims C11 - C13
\* C11: when parse_release_info fails, generate_release_key lets no error
\* out and returns the Base variant with key = canonical name, the result
\* it gives for an empty field-set.
C11_ParserFailureAbsorbed ==
    (/\ kout.cls # "pending"
     /\ kin.parsed # <<>>
     /\ kin.info.k \in {"TypeError", "Exception"}) =>
        /\ kout.cls = "BaseReleaseKey"
        /\ kout.fields = <<>>
        /\ kout.name = Lower(kin.parsed)
        /\ kout.release_key = kout.name
        /\ kout = GenerateReleaseKey(kin.release_name, kin.parsed, [k |-> "map", m |-> <<>>])
C11_Witness ==
    /\ kout.cls = "BaseReleaseKey"
    /\ kin.parsed = <<"S", "h">>
    /\ kin.info.k = "Exception"
    /\ kout.release_key = <<"s", "h">>

\* C12: generate_release_key reports no match (False), never a key of any
\* variant and never an error, whenever normalization leaves nothing usable
\* or the parser finds no canonical name.
C12_NoMatch ==
    (kout.cls # "pending" /\ (kin.release_name = "" \/ kin.parsed = <<>>)) =>
        kout = NoMatch
C12_Witness ==
    /\ kout.cls = "False"
    /\ kin.release_name # ""
    /\ kin.parsed = <<>>
    /\ kin.info.k = "map" /\ DOMAIN kin.info.m = {"season", "episode"}

\* the field-set the parser extracted (None and the empty mapping are both empty)
FieldSetOf(info) == IF info.k = "map" THEN info.m ELSE <<>>
\* equality of two results as ReleaseKey.__eq__ has it: by release_key alone
SameKey(a, b) ==
    IF a.cls = "False" \/ b.cls = "False" THEN a.cls = b.cls
    ELSE a.release_key = b.release_key
C13_State ==
    (/\ kout.cls # "pending" /\ kout2.cls # "pending"
     /\ kin.info.k \in {"map", "None"} /\ kin2.info.k \in {"map", "None"}
     /\ kin.parsed = kin2.parsed
     /\ FieldSetOf(kin.info) = FieldSetOf(kin2.info)) =>
        SameKey(kout, kout2)
C13_Step ==
    (kout' # kout \/ kout2' # kout2) =>
        UNCHANGED <<pollVars, dedupVars, storeVars, kin, kin2>>

\* C13: generate_release_key is stable: the same raw name classified twice,
\* or two raw names with the same canonical name and field-set, give equal
\* keys, and no call changes the memo, the poll state or a persisted record.
C13_StableKey == []C13_State /\ [][C13_Step]_vars
C13_Witness ==
    /\ kout.cls = "TVReleaseKey" /\ kout2.cls = "TVReleaseKey"
    /\ kin.release_name # kin2.release_name
    /\ kin.parsed = kin2.parsed /\ kin.info = kin2.info
    /\ kout # kout2
    /\ kout.release_key = kout2.release_key

\* C14 as stated: once the memo holds a Source for a name, no operation
\* removes or replaces that entry.
C14_OfAnyOperation ==
    [][\A n \in SourceNames :
          Truthy(cache_source[n]) => cache_source'[n] = cache_source[n]]_vars

\* the step is a lookup by id that passed the memo scan, queried, and found
\* the persisted row of name n
ByIdFoundRowOf(n) ==
    /\ \E id \in SourceIds : \E order \in ScanOrders(cache_source) :
          GetSourceById(id, order)
    /\ ret'.queried /\ ret'.kind = "ok"
    /\ db[n] # 0 /\ ret'.val = Obj(db[n])
C14_Step ==
    \A n \in SourceNames :
        Truthy(cache_source[n]) =>
            /\ Truthy(cache_source'[n])
            /\ cache_source'[n] # cache_source[n] =>
                   (ByIdFoundRowOf(n) /\ cache_source'[n] = Obj(db[n]))
            /\ (\E flush \in BOOLEAN : GetSourceByName(n, flush)) =>
                   /\ ret'.kind = "ok" /\ ~ret'.queried
                   /\ ret'.val = cache_source[n]
                   /\ cache_source'[n] = cache_source[n]
                   /\ UNCHANGED <<heap, db, staged>>

\* C14 (amended): once the memo holds a Source for a name the entry is never
\* removed; only a get_source by id that misses the memo and finds the
\* persisted row of that name replaces it, with that row; and get_source by
\* that name returns the memo's entry without consulting persistence, even
\* after persistence was changed externally.
C14_MemoEntryKept == [][C14_Step]_vars
C14_Witness ==
    /\ ret.op = "name" /\ ret.kind = "ok" /\ ~ret.queried /\ ret.ext
    /\ cache_source[ret.name] = ret.val
    /\ db[ret.name] # ret.val.oid
    /\ prevRet.op = "ref"

\* the fetch of generator g raises in this step
Raises(g) == gpc[g] = "iter" /\ gpc'[g] = "error"
C15_Step ==
    \A g \in Gens :
        /\ Raises(g) =>
               /\ gfetch'[g] = 1
               /\ gout'[g] = gout[g]
               /\ last_update' = last_update /\ accepted' = accepted
               /\ enabled' = enabled /\ interval' = interval
               /\ accepted[Len(accepted)] = gt0[g] => last_update' = gt0[g]
        /\ gpc[g] = "error" =>
               /\ gpc'[g] = "error"
               /\ gfetch'[g] = gfetch[g] /\ gout'[g] = gout[g]
               /\ gt0'[g] = gt0[g]
C15_State ==
    \A g \in Gens :
        /\ gfetch[g] <= 1
        /\ gpc[g] = "error" =>
               /\ gfetch[g] = 1
               /\ last_update >= gt0[g]
               /\ \A i \in 1..Len(accepted) :
                      accepted[i] > gt0[g] => accepted[i] - gt0[g] > interval

BackendNames == {Rtorrent, Transmission, Utorrent}
ClientOf(name) ==
    [kind |-> "client",
     backend |-> CASE name = Rtorrent -> "RTorrentClient"
                   [] name = Transmission -> "TransmissionClient"
                   [] name = Utorrent -> "UTorrentClient"]
NoClient == [kind |-> "ConfigError", backend |-> "none"]
Supplied == cret.arg # NoValue /\ cret.arg.s # <<>>
\* the client value as given: the argument, else the configured value, else
\* transmission
ClientValue ==
    IF Supplied THEN cret.arg.s
    ELSE IF client_conf # NoValue THEN client_conf.s
    ELSE Transmission

\* C16 as stated: the backend named by the client value is selected, and
\* every value other than the three names raises a configuration error.
C16_OfGivenValue ==
    cret.called =>
        cret.res = IF ClientValue \in BackendNames THEN ClientOf(ClientValue) ELSE NoClient

\* the value init_client compares: a configured value is lower-cased first
ComparedValue == IF Supplied THEN ClientValue ELSE Lower(ClientValue)
C16_State ==
    cret.called =>
        cret.res = IF ComparedValue \in BackendNames THEN ClientOf(ComparedValue) ELSE NoClient
C16_Step == nclients' # nclients => cret'.res.kind = "client"

\* C16 (amended): init_client takes the supplied value as it is and the
\* configured value lower-cased, uses transmission when none is supplied or
\* configured, selects the backend whose name equals that value, and for
\* every other value raises a configuration error and builds no client.
C16_BackendSelection == []C16_State /\ [][C16_Step]_vars
C16_Witness ==
    /\ cret.called /\ cret.arg = NoValue
    /\ client_conf # NoValue /\ client_conf.s \notin BackendNames
    /\ cret.res.backend = "TransmissionClient"
    /\ nclients = 1

C17_State ==
    (existsRet.called /\ ~existsRet.failed) =>
        /\ ~existsRet.ret.raised /\ existsRet.ret.kind = "list"
        /\ existsRet.ret.val # <<>> <=>
               \E i \in 1..Len(existsRet.recs) : existsRet.recs[i] = existsRet.key
        /\ \A i \in 1..Len(existsRet.ret.val) : existsRet.ret.val[i] = existsRet.key
C17_Step == downloads' # downloads => existsRet' = existsRet

\* C17: with a working persistence layer exists() returns a non-empty list
\* exactly when some recorded Download has a release_key equal to the given
\* key's string, an empty list otherwise, and it never creates or changes a
\* Download record.
C17_ExistsExactMatch == []C17_State /\ [][C17_Step]_vars
C17_Witness ==
    /\ existsRet.called /\ ~existsRet.failed
    /\ existsRet.key = "a"
    /\ existsRet.recs = <<"a-1_2", "a">>
    /\ existsRet.ret.val = <<"a">>
    /\ downloads = existsRet.recs

\* the step belongs to find_matches or to exists
PollOrExistsStep ==
    \/ gpc' # gpc \/ gt0' # gt0 \/ gsession' # gsession \/ gitems' # gitems
    \/ gout' # gout \/ gfetch' # gfetch
    \/ existsRet' # existsRet
C18_Step ==
    /\ last_update' # last_update =>
           /\ \E g \in Gens : Triggered(g) /\ gpc'[g] = "gated" /\ gt0'[g] = now
           /\ last_update' = now
           /\ accepted' = Append(accepted, now)
    /\ accepted' # accepted => last_update' # last_update
    /\ PollOrExistsStep => enabled' = enabled /\ interval' = interval
    /\ existsRet' # existsRet => UNCHANGED pollVars
C18_State ==
    /\ Len(accepted) = Cardinality({g \in Gens : gsession[g] # 0})
    /\ last_update = IF accepted = <<>> THEN 0 ELSE accepted[Len(accepted)]

\* C18: across triggers, item pulls and exists() calls, last_update changes
\* exactly once per accepted cycle, at the gate and to the trigger time, and
\* at no other point; find_matches and exists never change enabled or
\* interval.
C18_PollStateFrame == []C18_State /\ [][C18_Step]_vars
C18_Witness ==
    \E g, h \in Gens :
        /\ accepted = <<gt0[g]>> /\ last_update = gt0[g] /\ gt0[g] > 0
        /\ Len(gout[g]) = 2
        /\ existsRet.called /\ existsRet.session = gsession[g]
        /\ gpc[h] = "done" /\ gsession[h] = 0 /\ gt0[h] > gt0[g] /\ enabled

\* C19: after any sequence of get_source calls every value the source memo
\* holds is a Source entity, never a missing or falsy placeholder, so the
\* scan of a lookup by id reads source_id of each cached value without
\* failing.
C19_MemoHoldsSources ==
    /\ \A n \in SourceNames : cache_source[n] # Absent => Truthy(cache_source[n])
    /\ ~(ret.op = "id" /\ ret.kind = "AttributeError" /\ ~ret.queried)

\* C20: key derivation is injective over classifications: two ReleaseKeys
\* that differ in variant, canonical name or an extracted field value never
\* have equal keys, so equality by key never conflates distinct releases.
C20_KeysInjective ==
    (/\ kout.cls \notin {"pending", "False"}
     /\ kout2.cls \notin {"pending", "False"}
     /\ \/ kout.cls # kout2.cls
        \/ kout.name # kout2.name
        \/ kout.fields # kout2.fields) =>
        ~SameKey(kout, kout2)
====
